---------------------------- MODULE Spec2Model ----------------------------
(***************************************************************************)
(* Model of the agent-radar pipeline: the stateless builder                *)
(* (.github/workflows/build_agent_radar.py) and the incremental builder    *)
(* (scripts/build_agent_radar.py).                                         *)
(*                                                                         *)
(* Strings are tuples of one-character strings, so that lower-casing,      *)
(* substring search, slugging and lexicographic comparison are computed    *)
(* the way Python computes them.  Instants are integers counting           *)
(* 1/UnitsPerDay of a day since 2024-01-01T00:00Z; a run takes less than   *)
(* one such unit, so datetime.now() is one instant, now, throughout a run. *)
(* A feed entry stands for what the field fallbacks of the entry loop      *)
(* resolve it to: title, link, timestamp (or none) and summary.            *)
(***************************************************************************)
EXTENDS Integers, Sequences, FiniteSets, TLC

\* ------------------------------------------------------------------ bounds
UnitsPerDay == 2
MaxFeeds == 2
MaxEntries == 2
MaxPrior == 1
MaxTop == 2
MaxDays == 1
MaxRuns == 2
MaxAdvance == 1
MaxWords == 2

Min(a, b) == IF a < b THEN a ELSE b
Max(a, b) == IF a > b THEN a ELSE b

\* ------------------------------------------------------- Python str helpers
UpperChars == <<"A","B","C","D","E","F","G","H","I","J","K","L","M","N","O","P","Q","R","S","T","U","V","W","X","Y","Z">>
LowerChars == <<"a","b","c","d","e","f","g","h","i","j","k","l","m","n","o","p","q","r","s","t","u","v","w","x","y","z">>
Digits == <<"0","1","2","3","4","5","6","7","8","9">>
\* the characters the model uses, in code-point order
Ascii == <<" ","!","$","-",".","/">> \o Digits \o <<":">> \o UpperChars \o LowerChars
Alnum == {LowerChars[i] : i \in 1..Len(LowerChars)} \cup {Digits[i] : i \in 1..Len(Digits)}

Ord(c) == CHOOSE i \in 1..Len(Ascii) : Ascii[i] = c

\* str.lower()
LowerChar(c) ==
    IF \E i \in 1..Len(UpperChars) : UpperChars[i] = c
    THEN LowerChars[CHOOSE i \in 1..Len(UpperChars) : UpperChars[i] = c]
    ELSE c
lower(s) == [i \in 1..Len(s) |-> LowerChar(s[i])]

\* s[:n]
Take(s, n) == SubSeq(s, 1, Min(n, Len(s)))

\* k in t
Contains(t, k) ==
    \E i \in 1..(Len(t) - Len(k) + 1) : SubSeq(t, i, i + Len(k) - 1) = k

\* a < b on str (lexicographic by code point)
RECURSIVE StrLess(_, _)
StrLess(a, b) ==
    IF b = <<>> THEN FALSE
    ELSE IF a = <<>> THEN TRUE
    ELSE IF Head(a) = Head(b) THEN StrLess(Tail(a), Tail(b))
    ELSE Ord(Head(a)) < Ord(Head(b))

\* re.sub(r"[^a-z0-9]+", "-", s)
RECURSIVE DropNonAlnum(_)
DropNonAlnum(s) ==
    IF s = <<>> \/ Head(s) \in Alnum THEN s ELSE DropNonAlnum(Tail(s))
RECURSIVE ReSub(_)
ReSub(s) ==
    IF s = <<>> THEN <<>>
    ELSE IF Head(s) \in Alnum THEN <<Head(s)>> \o ReSub(Tail(s))
    ELSE <<"-">> \o ReSub(DropNonAlnum(Tail(s)))

\* s.strip("-")
RECURSIVE LStrip(_)
LStrip(s) == IF s # <<>> /\ Head(s) = "-" THEN LStrip(Tail(s)) ELSE s
RECURSIVE RStrip(_)
RStrip(s) ==
    IF s # <<>> /\ s[Len(s)] = "-" THEN RStrip(SubSeq(s, 1, Len(s) - 1)) ELSE s
Strip(s) == RStrip(LStrip(s))

\* ------------------------------------------------------------------- dates
\* An optional instant is <<>> (None) or <<t>>.
NoDt == <<>>

\* dt.strftime("%Y-%m-%d") for the instants of January 2024
TwoDigits(n) == <<Digits[(n \div 10) + 1], Digits[(n % 10) + 1]>>
strftime(t) == <<"2","0","2","4","-","0","1","-">> \o TwoDigits((t \div UnitsPerDay) + 1)

\* in_window(dt, days), with datetime.now(timezone.utc) passed as now;
\* timedelta.days is the floor of the difference in days
in_window_strict(dt, days, now) ==
    IF dt = NoDt THEN FALSE
    ELSE ((now - dt[1]) \div UnitsPerDay) < days
in_window(dt, days, now) ==
    IF dt = NoDt THEN FALSE
    ELSE ((now - dt[1]) \div UnitsPerDay) <= days

\* ---------------------------------------------------------------- keywords
GLOBAL_KEYS == {
    <<"a","g","e","n","t">>, <<"a","g","e","n","t","s">>, <<"a","g","e","n","t"," ","e","n","g","i","n","e">>, <<"a","g","e","n","t"," ","b","u","i","l","d","e","r">>, <<"a","g","e","n","t","s","p","a","c","e">>,
    <<"a","2","a">>, <<"m","c","p">>, <<"g","o","v","e","r","n","a","n","c","e">>, <<"r","b","a","c">>, <<"o","b","s","e","r","v","a","b","i","l","i","t","y">>, <<"p","r","i","c","i","n","g">>,
    <<"g","a">>, <<"g","e","n","e","r","a","l"," ","a","v","a","i","l","a","b","i","l","i","t","y">>, <<"d","e","p","r","e","c","a","t","e">>, <<"d","e","p","r","e","c","a","t","i","o","n">>, <<"s","u","n","s","e","t">>,
    <<"i","d","e","n","t","i","t","y">>, <<"m","e","m","o","r","y">> }

KEYS == {
    <<"a","g","e","n","t">>, <<"a","g","e","n","t","s">>, <<"a","g","e","n","t"," ","o","s">>, <<"a","g","e","n","t"," ","e","n","g","i","n","e">>, <<"a","g","e","n","t"," ","b","u","i","l","d","e","r">>,
    <<"m","c","p">>, <<"g","u","a","r","d","r","a","i","l","s">>, <<"g","o","v","e","r","n","a","n","c","e">>, <<"o","b","s","e","r","v","a","b","i","l","i","t","y">>, <<"t","r","a","c","e">>,
    <<"p","r","i","c","i","n","g">>, <<"g","a">>, <<"g","e","n","e","r","a","l"," ","a","v","a","i","l","a","b","i","l","i","t","y">>, <<"d","e","p","r","e","c","a","t","i","o","n">>, <<"v","e","r","t","e","x">>,
    <<"b","e","d","r","o","c","k">>, <<"l","a","n","g","g","r","a","p","h">> }

\* match(text, kws) / match_keywords(text, kws)
match(text, kws) == \E k \in kws : Contains(lower(text), lower(k))

\* ---------------------------------------------------------------- classify
IsDeprecation(t) == Contains(t, <<"d","e","p","r","e","c","a","t">>) \/ Contains(t, <<"s","u","n","s","e","t">>)
IsPricing(t) == Contains(t, <<"p","r","i","c","i","n","g">>) \/ Contains(t, <<"p","r","i","c","e">>) \/ Contains(t, <<"$">>)
IsLaunch(t) ==
    \/ Contains(t, <<"g","a">>) \/ Contains(t, <<"g","e","n","e","r","a","l"," ","a","v","a","i","l","a","b","i","l","i","t","y">>)
    \/ Contains(t, <<"l","a","u","n","c","h">>) \/ Contains(t, <<"i","n","t","r","o","d","u","c">>)

\* scripts/build_agent_radar.py: classify(text), first match wins
classify(text) ==
    LET t == lower(text) IN
    IF IsDeprecation(t) THEN "deprecation"
    ELSE IF IsPricing(t) THEN "pricing"
    ELSE IF IsLaunch(t) THEN "launch"
    ELSE "upgrade"

\* .github/workflows/build_agent_radar.py: the three successive ifs on tp,
\* each overwriting the one before
tp(text) ==
    LET lower_ == lower(text)
        tp0 == "upgrade"
        tp1 == IF IsLaunch(lower_) THEN "launch" ELSE tp0
        tp2 == IF IsDeprecation(lower_) THEN "deprecation" ELSE tp1
        tp3 == IF IsPricing(lower_) THEN "pricing" ELSE tp2
    IN tp3

\* ---------------------------------------------------------------------- ids
\* scripts/build_agent_radar.py: safe_id(date_str, vendor, title)
safe_id(date_str, vendor, title) ==
    LET slug == Take(Strip(ReSub(lower(title))), 50)
        vendor_slug == Strip(ReSub(lower(vendor)))
    IN date_str \o <<"-">> \o vendor_slug \o <<"-">> \o slug

\* .github/workflows/build_agent_radar.py: the "id" f-string of main
inline_id(date_str, vendor, title) ==
    date_str \o <<"-">> \o lower(vendor) \o <<"-">> \o Take(Strip(ReSub(lower(title))), 40)


\* ------------------------------------------------------------------- slices
\* s[:n] with Python's meaning of a negative n
Slice_one_more(s, n) == IF n >= 0 THEN Take(s, n + 1) ELSE Take(s, Max(0, Len(s) + n + 1))
Slice(s, n) == IF n >= 0 THEN Take(s, n) ELSE Take(s, Max(0, Len(s) + n))

\* the sort keys: scripts/ key_date(it) = it.get("date") or "";
\* .github/ (x["date"], x["vendor"])
KeyLt(key, a, b) ==
    IF key = "date" THEN StrLess(a.date, b.date)
    ELSE StrLess(a.date, b.date) \/ (a.date = b.date /\ StrLess(a.vendor, b.vendor))

\* list.sort(key=..., reverse=True) / sorted(..., reverse=True): descending and
\* stable (elements with equal keys keep their order)
InsertDesc_before_equal(sorted, x, key) ==
    LET n == Cardinality({i \in 1..Len(sorted) : KeyLt(key, x, sorted[i])})
    IN SubSeq(sorted, 1, n) \o <<x>> \o SubSeq(sorted, n + 1, Len(sorted))
InsertDesc(sorted, x, key) ==
    LET n == Cardinality({i \in 1..Len(sorted) : ~KeyLt(key, sorted[i], x)})
    IN SubSeq(sorted, 1, n) \o <<x>> \o SubSeq(sorted, n + 1, Len(sorted))
RECURSIVE SortDesc(_, _)
SortDesc(s, key) ==
    IF s = <<>> THEN <<>>
    ELSE InsertDesc(SortDesc(SubSeq(s, 1, Len(s) - 1), key), s[Len(s)], key)

\* ------------------------------------------------------------- configuration
\* cfg["vendors"]: name, audience, impact, risk, keywords (feeds are drawn
\* when fetched)
Vendors == {
    [name |-> <<"A","c","m","e">>, audience |-> "dev", impact |-> 3, risk |-> 3, keywords |-> {}],
    [name |-> <<"B","o","l","t">>, audience |-> "biz", impact |-> 4, risk |-> 2, keywords |-> {<<"b","e","t","a">>}] }

\* the instant of the first run: 2024-01-05T00:00Z
NowStart == 4 * UnitsPerDay

\* Feed entries, after the field fallbacks (title|heading, link|url,
\* published|updated|date|created|date_published, summary|content_text).
Entry(title, link, dt, summary) ==
    [title |-> title, link |-> link, dt |-> dt, summary |-> summary]
Entries == {
    Entry(<<"A","g","e","n","t"," ","G","A">>, <<"u">>, <<NowStart>>, <<>>),
    Entry(<<"a","g","e","n","t",":"," ","G","A","!">>, <<"u">>, <<NowStart + 1>>, <<"l","a","u","n","c","h">>),
    Entry(<<"M","C","P">>, <<"u">>, <<NowStart - UnitsPerDay>>, <<"s","u","n","s","e","t"," ","$">>),
    Entry(<<"m","c","p">>, <<"u">>, <<NowStart - (2 * UnitsPerDay)>>, <<>>),
    Entry(<<"N","e","w","s">>, <<"u">>, <<NowStart>>, <<>>),
    Entry(<<"M","C","P">>, <<>>, <<NowStart>>, <<>>),
    Entry(<<"M","C","P">>, <<"u">>, NoDt, <<>>),
    Entry(<<>>, <<"u","/","m","c","p">>, <<NowStart>>, <<>>) }

\* html_summary(url): the description of the page behind url, cut to 240
\* characters; "" when the request fails (here: every url but "u")
html_summary(url) == IF url = <<"u">> THEN Take(<<"p","a","g","e">>, 240) ELSE <<>>

\* what fetching one feed URL can come to
EntryKinds == {"feed", "json_items", "json_value_items", "json_http_error"}
FailKinds == {"error", "notjson"}
ShapeKinds == {"json_items_null", "json_array"}
FeedKinds == EntryKinds \cup FailKinds \cup ShapeKinds


\* ----------------------------------------------------------------- snapshot
Item(id, date, name, vname, type, summary, url, v) ==
    [id |-> id, date |-> date, name |-> name, vendor |-> vname, type |-> type,
     summary |-> summary,
     sources |-> <<[title |-> vname \o <<" ","s","o","u","r","c","e">>, url |-> url]>>,
     impact |-> v.impact, risk |-> v.risk, audience |-> v.audience, tags |-> <<>>]

\* elements of a snapshot's list: a JSON object (dict) or anything else
Dict(it) == [dict |-> TRUE, val |-> it]
NonDict == [dict |-> FALSE, val |-> <<>>]

Acme == CHOOSE v \in Vendors : v.name = <<"A","c","m","e">>

\* items an earlier run can have written, a dict with neither id nor date,
\* and a non-dict element
PriorElems == {
    Dict(Item(safe_id(strftime(NowStart), <<"A","c","m","e">>, <<"A","g","e","n","t"," ","G","A">>), strftime(NowStart),
              <<"A","g","e","n","t"," ","G","A">>, <<"A","c","m","e">>, "launch", <<"o","l","d">>, <<"u">>, Acme)),
    Dict(Item(safe_id(strftime(0), <<"A","c","m","e">>, <<"M","C","P">>), strftime(0),
              <<"M","C","P">>, <<"A","c","m","e">>, "upgrade", <<"o","l","d">>, <<"u">>, Acme)),
    Dict(Item(<<>>, <<>>, <<"x">>, <<"A","c","m","e">>, "upgrade", <<>>, <<"u">>, Acme)),
    NonDict }

ListKinds == {"list", "object"}
EmptyKinds == {"missing", "notjson", "scalar", "object_no_items"}
BadItemsKinds == {"object_items_scalar"}
InfileKinds == ListKinds \cup EmptyKinds \cup BadItemsKinds

Infile(kind, body) == [kind |-> kind, body |-> body]
NoInfile == Infile("missing", <<>>)
Infiles(P) ==
    {Infile(k, b) : k \in ListKinds, b \in UNION {[1..n -> P] : n \in 0..MaxPrior}}
    \cup {Infile(k, <<>>) : k \in EmptyKinds \cup BadItemsKinds}

NotWritten == [written |-> FALSE, items |-> <<>>]
Written(its) == [written |-> TRUE, items |-> its]

VARIABLES
    script,    \* which builder runs
    args,      \* --days, --top
    world,     \* the feeds' possible contents: [entries, kinds, record]
    now,       \* datetime.now(timezone.utc) during the run
    infile,    \* the file --in names
    pc,        \* "load", "scan", "done"; "raised_load", "raised_fetch" when an
               \* exception left main; "probe", "probed" when a function is probed
    vendor,    \* v of the vendor loop
    nfeeds,    \* feeds fetched so far in this run
    open,      \* whether the current feed yielded a list of entries
    fed,       \* entries of the current feed processed so far
    entries,   \* the entries still to process when the run repeats a feed
    seen,      \* scripts/: seen
    merged,    \* scripts/: merged
    items,     \* .github/: items
    outfile,   \* the file --out names
    run,       \* number of the run
    log,       \* the feeds fetched in this run, with their contents
    tape,      \* the feeds still to fetch when a run repeats the last one's feeds
    hist,      \* whether this run and the one before started from an empty
               \* history, and whether this run repeats the last one's feeds
    probe      \* inputs and result of a probed function

vars == <<script, args, world, now, infile, pc, vendor, nfeeds, open, fed, entries, seen,
          merged, items, outfile, run, log, tape, hist, probe>>

runvars == <<script, args, world, now, infile, run, hist>>

NoProbe == [fn |-> "none"]

\* ------------------------------------------------------- scripts/: the run
\* load_existing(path): the list read, or a value main cannot iterate
load_existing(f) ==
    IF f.kind \in EmptyKinds THEN [iterable |-> TRUE, elems |-> <<>>]
    ELSE IF f.kind \in ListKinds THEN [iterable |-> TRUE, elems |-> f.body]
    ELSE [iterable |-> FALSE, elems |-> <<>>]

IsDict(el) == el.dict
DictsOf(elems) ==
    LET ds == SelectSeq(elems, IsDict) IN [i \in 1..Len(ds) |-> ds[i].val]

\* main, line 105: the ids of the prior items count as seen
I_seen_empty(dicts) == {}
I_seen(dicts) == {dicts[i].id : i \in 1..Len(dicts)}

\* main, lines 104-106: existing, seen, merged
Load ==
    /\ pc = "load"
    /\ LET existing == load_existing(infile) IN
       IF ~existing.iterable
       THEN /\ pc' = "raised_load"
            /\ UNCHANGED <<seen, merged, hist>>
       ELSE /\ seen' = I_seen(DictsOf(existing.elems))
            /\ merged' = DictsOf(existing.elems)
            /\ hist' = [hist EXCEPT !.curEmpty = (existing.elems = <<>>)]
            /\ pc' = "scan"
    /\ UNCHANGED <<script, args, world, now, infile, run, vendor, nfeeds, open, fed,
                   entries, items, outfile, log, tape, probe>>

\* fetch_feed(url) of scripts/: no raise_for_status, so the body of an
\* error response is parsed like any other
I_fetch_feed(kind) ==
    IF kind \in FailKinds THEN [tag |-> "none"]
    ELSE IF kind = "feed" THEN [tag |-> "feed"]
    ELSE [tag |-> "json", shape |-> kind]

\* main, lines 116-121: whether computing entries raises, and whether the
\* feed's list of entries is what the loop iterates (else an empty list)
I_entries(data) ==
    IF data.tag = "none" THEN [raised |-> FALSE, list |-> FALSE]
    ELSE IF data.tag = "feed" THEN [raised |-> FALSE, list |-> TRUE]
    ELSE IF data.shape = "json_array" THEN [raised |-> TRUE, list |-> FALSE]
    ELSE IF data.shape = "json_items_null" THEN [raised |-> FALSE, list |-> FALSE]
    ELSE [raised |-> FALSE, list |-> TRUE]

\* The feeds are the run's input.  A first run draws them as it goes: each
\* fetch draws the vendor and what the fetch comes to, each step of the entry
\* loop draws the next entry of the list (at most MaxEntries).  A run that
\* repeats the last run's feeds reads them from tape.
FeedDomain ==
    IF hist.replay
    THEN {<<f.vendor, f.kind>> : f \in {tape[i] : i \in 1..Min(1, Len(tape))}}
    ELSE IF nfeeds < MaxFeeds THEN world.vendors \X world.kinds ELSE {}

EntryDomain ==
    IF hist.replay
    THEN {entries[i] : i \in 1..Min(1, Len(entries))}
    ELSE IF open /\ fed < MaxEntries THEN world.entries ELSE {}

\* nothing of the current feed is left to process
FeedDone == hist.replay => entries = <<>>

Fetched(v, k, raised) ==
    /\ vendor' = v
    /\ nfeeds' = nfeeds + 1
    /\ fed' = 0
    /\ open' = (~raised /\ k \in EntryKinds)
    /\ entries' = IF hist.replay /\ ~raised THEN Head(tape).entries ELSE <<>>
    /\ tape' = IF hist.replay THEN Tail(tape) ELSE tape
    /\ log' = IF world.record
              THEN Append(log, [vendor |-> v, kind |-> k, entries |-> <<>>])
              ELSE log
    /\ pc' = IF raised THEN "raised_fetch" ELSE "scan"

Consumed(e) ==
    /\ fed' = fed + 1
    /\ entries' = IF hist.replay THEN Tail(entries) ELSE entries
    /\ log' = IF world.record
              THEN [log EXCEPT ![Len(log)].entries = Append(@, e)]
              ELSE log

\* main, lines 108-121: the next vendor's next feed is fetched
I_Fetch ==
    /\ pc = "scan" /\ script = "incremental" /\ FeedDone
    /\ \E f \in FeedDomain :
         Fetched(f[1], f[2], I_entries(I_fetch_feed(f[2])).raised)
    /\ UNCHANGED <<runvars, seen, merged, items, outfile, probe>>

Text(title, desc, link) == title \o <<" ">> \o desc \o <<" ">> \o link

\* main, lines 122-154: one entry of the current feed
I_accepts_no_window(e, v) ==
    /\ e.link # <<>> /\ e.title # <<>>
    /\ e.dt # NoDt
    /\ match(Text(e.title, e.summary, e.link), GLOBAL_KEYS \cup v.keywords)
I_accepts(e, v) ==
    /\ e.link # <<>> /\ e.title # <<>>
    /\ in_window(e.dt, args.days, now)
    /\ match(Text(e.title, e.summary, e.link), GLOBAL_KEYS \cup v.keywords)

I_eid(e, v) == safe_id(strftime(e.dt[1]), v.name, e.title)

I_item(e, v) ==
    LET text == Text(e.title, e.summary, e.link)
        summ == IF Take(e.summary, 220) # <<>> THEN Take(e.summary, 220)
                ELSE html_summary(e.link)
    IN Item(I_eid(e, v), strftime(e.dt[1]), Take(e.title, 160), v.name,
            classify(text), summ, e.link, v)

I_Entry ==
    /\ pc = "scan" /\ script = "incremental"
    /\ \E e \in EntryDomain :
         /\ IF I_accepts(e, vendor) /\ I_eid(e, vendor) \notin seen
            THEN /\ merged' = Append(merged, I_item(e, vendor))
                 /\ seen' = seen \cup {I_eid(e, vendor)}
            ELSE UNCHANGED <<merged, seen>>
         /\ Consumed(e)
    /\ UNCHANGED <<runvars, pc, vendor, nfeeds, open, items, outfile, tape, probe>>

\* main, lines 156-161: sort, truncate, save_out
I_output_unsorted(m, top) == Slice(m, top)
I_output(m, top) == Slice(SortDesc(m, "date"), top)

I_Finish ==
    /\ pc = "scan" /\ script = "incremental" /\ FeedDone
    /\ hist.replay => tape = <<>>
    /\ merged' = I_output(merged, args.top)
    /\ outfile' = Written(merged')
    /\ pc' = "done"
    /\ UNCHANGED <<runvars, vendor, nfeeds, open, fed, entries, seen, items, log, tape,
                   probe>>

\* ------------------------------------------------------- .github/: the run
\* fetch_feed(url) of .github/: raise_for_status before .json()
S_fetch_feed(kind) ==
    IF kind \in FailKinds \/ kind = "json_http_error" THEN [tag |-> "none"]
    ELSE IF kind = "feed" THEN [tag |-> "feed"]
    ELSE [tag |-> "json", shape |-> kind]

\* main, lines 80-87: as I_entries, but the items of {"items": null} are
\* None, which the for loop cannot iterate
S_entries(data) ==
    IF data.tag = "none" THEN [raised |-> FALSE, list |-> FALSE]
    ELSE IF data.tag = "feed" THEN [raised |-> FALSE, list |-> TRUE]
    ELSE IF data.shape = "json_array" THEN [raised |-> TRUE, list |-> FALSE]
    ELSE IF data.shape = "json_items_null" THEN [raised |-> TRUE, list |-> FALSE]
    ELSE [raised |-> FALSE, list |-> TRUE]

\* main, lines 72-87
S_Fetch ==
    /\ pc = "scan" /\ script = "stateless" /\ FeedDone
    /\ \E f \in FeedDomain :
         Fetched(f[1], f[2], S_entries(S_fetch_feed(f[2])).raised)
    /\ UNCHANGED <<runvars, seen, merged, items, outfile, probe>>

\* main, lines 87-126
S_accepts(e, v) ==
    /\ e.link # <<>>
    /\ in_window(e.dt, args.days, now)
    /\ match(Text(e.title, e.summary, e.link), KEYS \cup v.keywords)

S_item(e, v) ==
    LET text == Text(e.title, e.summary, e.link)
        summ == IF Take(e.summary, 220) # <<>> THEN Take(e.summary, 220)
                ELSE html_summary(e.link)
    IN Item(inline_id(strftime(e.dt[1]), v.name, e.title), strftime(e.dt[1]),
            Take(e.title, 120), v.name, tp(text), summ, e.link, v)

S_Entry ==
    /\ pc = "scan" /\ script = "stateless"
    /\ \E e \in EntryDomain :
         /\ IF S_accepts(e, vendor)
            THEN items' = Append(items, S_item(e, vendor))
            ELSE UNCHANGED items
         /\ Consumed(e)
    /\ UNCHANGED <<runvars, pc, vendor, nfeeds, open, seen, merged, outfile, tape, probe>>

\* main, lines 128-135: the first item of each (vendor, name) is kept
DedupKey(it) == <<it.vendor, it.name>>
RECURSIVE Dedup(_, _)
Dedup(s, seen_) ==
    IF s = <<>> THEN <<>>
    ELSE IF DedupKey(Head(s)) \in seen_ THEN Dedup(Tail(s), seen_)
    ELSE <<Head(s)>> \o Dedup(Tail(s), seen_ \cup {DedupKey(Head(s))})

\* main, lines 128-139
S_output(its, top) == Slice(Dedup(SortDesc(its, "date_vendor"), {}), top)

S_Finish ==
    /\ pc = "scan" /\ script = "stateless" /\ FeedDone
    /\ outfile' = Written(S_output(items, args.top))
    /\ pc' = "done"
    /\ UNCHANGED <<runvars, vendor, nfeeds, open, fed, entries, seen, merged, items, log,
                   tape, probe>>

\* --------------------------------------------------------------- the next run
\* The builder is run again, MaxAdvance days later at most, against the same
\* feed contents; scripts/ is given the file it wrote last as --in.
NextRun ==
    /\ pc = "done" /\ run < MaxRuns
    /\ \E d \in 0..MaxAdvance : now' = now + (d * UnitsPerDay)
    /\ infile' = IF script = "incremental"
                 THEN Infile("object", [i \in 1..Len(outfile.items) |->
                                            Dict(outfile.items[i])])
                 ELSE infile
    /\ run' = run + 1
    /\ hist' = [prevEmpty |-> hist.curEmpty, curEmpty |-> FALSE, replay |-> TRUE]
    /\ tape' = log
    /\ log' = <<>>
    /\ pc' = IF script = "incremental" THEN "load" ELSE "scan"
    /\ nfeeds' = 0 /\ open' = FALSE /\ fed' = 0 /\ entries' = <<>>
    /\ seen' = {} /\ merged' = <<>> /\ items' = <<>>
    /\ UNCHANGED <<script, args, world, vendor, outfile, probe>>

\* ------------------------------------------------------------ specifications
AnyVendor == CHOOSE v \in Vendors : TRUE

World(E, K, rec) == [entries |-> E, kinds |-> K, vendors |-> Vendors, record |-> rec]

Tops == (0 - 1)..MaxTop
Dayss == 0..MaxDays

Idle ==
    /\ vendor = AnyVendor
    /\ nfeeds = 0
    /\ open = FALSE
    /\ fed = 0
    /\ entries = <<>>
    /\ seen = {}
    /\ merged = <<>>
    /\ items = <<>>
    /\ outfile = NotWritten
    /\ run = 1
    /\ log = <<>>
    /\ tape = <<>>
    /\ hist = [prevEmpty |-> FALSE, curEmpty |-> FALSE, replay |-> FALSE]

Start(W, F) ==
    /\ script \in {"stateless", "incremental"}
    /\ args \in [days : Dayss, top : Tops]
    /\ world = W
    /\ now = NowStart
    /\ infile \in (IF script = "incremental" THEN F ELSE {NoInfile})
    /\ pc = IF script = "incremental" THEN "load" ELSE "scan"
    /\ Idle
    /\ probe = NoProbe

\* One run of either builder, over every kind of feed and prior snapshot.
Init == Start(World(Entries, FeedKinds, FALSE), Infiles(PriorElems))

Next ==
    \/ Load
    \/ I_Fetch
    \/ I_Entry
    \/ I_Finish
    \/ S_Fetch
    \/ S_Entry
    \/ S_Finish

Spec == Init /\ [][Next]_vars

\* Successive runs against feeds that do not change while time passes; the
\* feeds fetched are recorded so that the next run meets them again.
RunsEntries == {e \in Entries : e.title = <<"A","g","e","n","t"," ","G","A">> \/ e.summary = <<"s","u","n","s","e","t"," ","$">>}
RunsPrior == {p \in PriorElems : p.dict /\ p.val.date = strftime(NowStart)}
RunsInfiles == {f \in Infiles(RunsPrior) : f.kind \in {"missing", "list"}}

InitRuns == Start(World(RunsEntries, {"feed", "error"}, TRUE), RunsInfiles)

NextRuns ==
    \/ Next
    \/ NextRun

SpecRuns == InitRuns /\ [][NextRuns]_vars

\* in_window probed on its own
ProbeTimes == 0..((MaxDays + 2) * UnitsPerDay)

InitWindow ==
    /\ script = "incremental"
    /\ args = [days |-> 0, top |-> 0]
    /\ world = World({}, {}, FALSE)
    /\ now = NowStart
    /\ infile = NoInfile
    /\ pc = "probe"
    /\ Idle
    /\ probe \in [fn : {"in_window"}, dt : {NoDt} \cup {<<t_>> : t_ \in ProbeTimes},
                  days : Dayss, now : ProbeTimes, res : {FALSE}]

ProbeWindow ==
    /\ pc = "probe" /\ probe.fn = "in_window"
    /\ probe' = [probe EXCEPT !.res = in_window(probe.dt, probe.days, probe.now)]
    /\ pc' = "probed"
    /\ UNCHANGED <<script, args, world, now, infile, vendor, nfeeds, open, fed, entries,
                   seen, merged, items, outfile, run, log, tape, hist>>

SpecWindow == InitWindow /\ [][ProbeWindow]_vars

\* the two classifiers probed on the same text
Words == {
    <<"d","e","p","r","e","c","a","t","e","d">>, <<"S","u","n","s","e","t">>, <<"p","r","i","c","i","n","g">>, <<"p","r","i","c","e">>, <<"$","5">>, <<"G","A">>, <<"l","a","u","n","c","h">>,
    <<"i","n","t","r","o","d","u","c","i","n","g">>, <<"u","p","d","a","t","e">>, <<"g","e","n","e","r","a","l"," ","a","v","a","i","l","a","b","i","l","i","t","y">> }

RECURSIVE Join(_)
Join(ws) ==
    IF Len(ws) = 1 THEN ws[1] ELSE ws[1] \o <<" ">> \o Join(Tail(ws))

Texts == {Join(ws) : ws \in UNION {[1..n -> Words] : n \in 1..MaxWords}}

InitClassify ==
    /\ script = "incremental"
    /\ args = [days |-> 0, top |-> 0]
    /\ world = World({}, {}, FALSE)
    /\ now = NowStart
    /\ infile = NoInfile
    /\ pc = "probe"
    /\ Idle
    /\ probe \in [fn : {"classify"}, text : Texts, incremental : {"unset"},
                  stateless : {"unset"}]

ProbeClassify ==
    /\ pc = "probe" /\ probe.fn = "classify"
    /\ probe' = [probe EXCEPT !.incremental = classify(probe.text),
                              !.stateless = tp(probe.text)]
    /\ pc' = "probed"
    /\ UNCHANGED <<script, args, world, now, infile, vendor, nfeeds, open, fed, entries,
                   seen, merged, items, outfile, run, log, tape, hist>>

SpecClassify == InitClassify /\ [][ProbeClassify]_vars
\* --------------------------------------------------------------- properties
Range(s) == {s[i] : i \in 1..Len(s)}

RECURSIVE IsSubseq(_, _)
IsSubseq(a, b) ==
    IF a = <<>> THEN TRUE
    ELSE IF b = <<>> THEN FALSE
    ELSE IF Head(a) = Head(b) THEN IsSubseq(Tail(a), Tail(b))
    ELSE IsSubseq(a, Tail(b))

OfDate(s, d) == LET T(x) == x.date = d IN SelectSeq(s, T)
OfDateVendor(s, d, v) == LET T(x) == x.date = d /\ x.vendor = v IN SelectSeq(s, T)
DatesOf(s) == {it.date : it \in Range(s)}
DescByDate(s) == \A i, j \in 1..Len(s) : i < j => ~StrLess(s[i].date, s[j].date)

\* the items the run found in the prior snapshot, and their ids
Prior == DictsOf(load_existing(infile).elems)
PriorIds == {it.id : it \in Range(Prior)}

\* the accumulated list a finishing run sorts
Encountered == IF script = "incremental" THEN merged ELSE items
Finishing == pc = "scan" /\ pc' = "done"

\* C1: no two items of a written output share an id.
C1_NoDuplicateIds ==
    pc = "done" =>
        \A i, j \in 1..Len(outfile.items) :
            i # j => outfile.items[i].id # outfile.items[j].id

\* C2 as stated: the written output is in descending order of date, and
\* items of equal date are in the order in which they were encountered.
C2_EncounterOrderTies ==
    [][Finishing =>
        /\ DescByDate(outfile'.items)
        /\ \A d \in DatesOf(outfile'.items) :
               IsSubseq(OfDate(outfile'.items, d), OfDate(Encountered, d))]_vars

\* C2, amended: the written output is in descending order of date; scripts/
\* keeps items of equal date in encounter order, .github/ orders items of
\* equal date by vendor name, descending, and keeps encounter order only
\* among items of equal date and vendor.
C2_SortedOutput ==
    [][Finishing =>
        LET out == outfile'.items IN
        /\ DescByDate(out)
        /\ script = "incremental" =>
               \A d \in DatesOf(out) : IsSubseq(OfDate(out, d), OfDate(merged, d))
        /\ script = "stateless" =>
               /\ \A i, j \in 1..Len(out) :
                      (i < j /\ out[i].date = out[j].date)
                          => ~StrLess(out[i].vendor, out[j].vendor)
               /\ \A it \in Range(out) :
                      IsSubseq(OfDateVendor(out, it.date, it.vendor),
                               OfDateVendor(items, it.date, it.vendor))]_vars

\* a stateless output holding two vendors' items of one date, the later
\* encountered one first
C2_Witness ==
    /\ pc = "done" /\ script = "stateless"
    /\ \E i, j \in 1..Len(outfile.items) :
         /\ i < j
         /\ outfile.items[i].date = outfile.items[j].date
         /\ outfile.items[i].vendor # outfile.items[j].vendor
         /\ ~IsSubseq(<<outfile.items[i], outfile.items[j]>>, items)
    /\ \E i, j \in 1..Len(outfile.items) : outfile.items[i].date # outfile.items[j].date

\* C3 as stated: whatever --top is, the written output has at most --top items.
C3_AnyTop == pc = "done" => Len(outfile.items) <= args.top

\* C3, amended: when --top is not negative, the written output has at most
\* --top items.
C3_TopBound == (pc = "done" /\ args.top >= 0) => Len(outfile.items) <= args.top

\* a run that met more distinct ids than --top allows and wrote --top items
C3_Witness ==
    /\ pc = "done" /\ script = "incremental"
    /\ args.top >= 1
    /\ Cardinality(seen) > args.top
    /\ Len(outfile.items) = args.top

\* C4: an entry whose id a prior item bears is not added; the prior items stay,
\* in their places, until the truncation, which alone can drop them.
C4_CrossRunDedup ==
    script = "incremental" =>
        /\ pc = "scan" =>
             /\ Len(merged) >= Len(Prior)
             /\ SubSeq(merged, 1, Len(Prior)) = Prior
             /\ \A i \in (Len(Prior) + 1)..Len(merged) : merged[i].id \notin PriorIds
        /\ pc = "done" =>
             /\ \A it \in Range(outfile.items) : it.id \in PriorIds => it \in Range(Prior)
             /\ \A p \in Range(Prior) :
                    \/ p \in Range(outfile.items)
                    \/ Len(outfile.items) = args.top
                    \/ args.top < 0

\* a finished run one of whose feeds held an acceptable entry with the id of
\* a prior item, the prior item being in the output
C4_Witness ==
    /\ pc = "done" /\ script = "incremental" /\ run = 1
    /\ \E f \in Range(log) : \E e \in Range(f.entries) :
         /\ I_accepts(e, f.vendor)
         /\ \E p \in Range(Prior) :
              /\ p.id = I_eid(e, f.vendor)
              /\ p \in Range(outfile.items)
              /\ p # I_item(e, f.vendor)

\* C5: a text with a deprecation marker and a pricing marker is classified
\* deprecation by both builders.
C5_DeprecationFirst ==
    (pc = "probed" /\ probe.fn = "classify") =>
        LET t == lower(probe.text) IN
        ((Contains(t, <<"d","e","p","r","e","c","a","t">>) \/ Contains(t, <<"s","u","n","s","e","t">>))
            /\ (Contains(t, <<"p","r","i","c","i","n","g">>) \/ Contains(t, <<"p","r","i","c","e">>) \/ Contains(t, <<"$">>)))
        => (probe.incremental = "deprecation" /\ probe.stateless = "deprecation")

\* C6: in_window rejects an instant exactly days+1 days before now, accepts
\* one exactly days days before now, and rejects a missing instant.
C6_WindowBoundary ==
    (pc = "probed" /\ probe.fn = "in_window") =>
        /\ probe.dt = NoDt => probe.res = FALSE
        /\ probe.dt # NoDt =>
             /\ (probe.now - probe.dt[1] = (probe.days + 1) * UnitsPerDay)
                    => probe.res = FALSE
             /\ (probe.now - probe.dt[1] = probe.days * UnitsPerDay)
                    => probe.res = TRUE

\* in_window has accepted an instant exactly days days before now
C6_Witness ==
    /\ pc = "probed" /\ probe.fn = "in_window"
    /\ probe.dt # NoDt
    /\ probe.days >= 1
    /\ probe.now - probe.dt[1] = probe.days * UnitsPerDay
    /\ probe.res = TRUE

\* C7: whatever a feed's fetch comes to, no exception leaves the feed loop of
\* scripts/.
C7_FeedFailureIsolated == script = "incremental" => pc # "raised_fetch"

\* C8: whatever the prior snapshot file holds, no exception leaves main while
\* it is loaded.
C8_SnapshotTolerated == pc # "raised_load"

\* C9 as stated: no item of a written output is dated earlier than the date
\* days days before the run.
C9_NoAgedItem ==
    pc = "done" =>
        \A it \in Range(outfile.items) :
            ~StrLess(it.date, strftime(now - (args.days * UnitsPerDay)))

\* the earliest instant in_window accepts at this run
Oldest == now - ((args.days + 1) * UnitsPerDay) + 1

\* C9, amended: an item created in this run, that is one whose id no prior
\* item bears, is not dated earlier than the date of the earliest instant
\* less than days+1 days before the run; prior items are not checked.
C9_NewItemsInWindow ==
    pc \in {"scan", "done"} =>
        \A it \in Range(Encountered) \cup
                  (IF pc = "done" THEN Range(outfile.items) ELSE {}) :
            it.id \notin PriorIds => ~StrLess(it.date, strftime(Oldest))

\* a written output with an item of this run dated before the day of the run
C9_Witness ==
    /\ pc = "done"
    /\ \E it \in Range(outfile.items) :
         /\ it.id \notin PriorIds
         /\ StrLess(it.date, strftime(now))

\* C10: scripts/ run from an empty history and run again on its own output,
\* against the same feeds with the same --top >= 0 and --days, writes the same
\* list again.
C10_RerunFixedPoint ==
    (/\ script = "incremental" /\ pc = "done"
     /\ hist.replay /\ hist.prevEmpty
     /\ args.top >= 0)
    => outfile.items = Prior

\* such a second run, which took in again an item the first run had cut off
C10_Witness ==
    /\ script = "incremental" /\ pc = "done"
    /\ hist.replay /\ hist.prevEmpty
    /\ args.top >= 1
    /\ Len(Prior) = args.top
    /\ Cardinality(seen) > Len(Prior)
    /\ outfile.items = Prior
    /\ \E i, j \in 1..Len(Prior) : Prior[i].date # Prior[j].date
=============================================================================
